---- MODULE Spec2Model ----
(***************************************************************************)
(* Model of the AI analysis service of python_backend: the request        *)
(* orchestrator (analyzer/services/analyzer.py), the chain aggregator and *)
(* the backend gateway (analyzer/services/data_fetcher.py), the prompt    *)
(* builder (analyzer/prompts.py), the AI client (analyzer/client.py) and  *)
(* the Prometheus metrics (analyzer/metrics/__init__.py).                 *)
(*                                                                         *)
(* A request is a coroutine.  Its position pc[r] is the await it is       *)
(* suspended at (one per backend GET) or one of the stations between the  *)
(* data gathering and the response.  The data backend and the Groq API    *)
(* are the environment: every reply action draws the reply from the       *)
(* bounded sets of replies defined below.                                  *)
(***************************************************************************)
EXTENDS Integers, Sequences, FiniteSets, TLC

\* ------------------------------------------------------------------------
\* Python / JSON values.  Every value is a record tagged by its kind, so
\* that two values of different kinds compare as unequal.
\* ------------------------------------------------------------------------
None == [kind |-> "None"]

Bool(b) == [kind |-> "bool", b |-> b]

Str(s) == [kind |-> "str", s |-> s]

List(q) == [kind |-> "list", items |-> q]

Dict(f) == [kind |-> "dict", fields |-> f]

\* The record without fields: the content of the dict {}.
NoFields == [k \in {} |-> None]

EmptyDict == Dict(NoFields)

EmptyList == List(<<>>)

IsDict(v) == v.kind = "dict"

IsList(v) == v.kind = "list"

\* Python truth value: None, False, "", [] and {} are false.
Truthy(v) ==
    CASE v.kind = "None" -> FALSE
      [] v.kind = "bool" -> v.b
      [] v.kind = "str"  -> v.s # ""
      [] v.kind = "list" -> Len(v.items) > 0
      [] v.kind = "dict" -> DOMAIN v.fields # {}
      [] OTHER -> TRUE

\* d.get(key, default) of a dict d.
Get(d, key, default) ==
    IF key \in DOMAIN d.fields THEN d.fields[key] ELSE default

\* d[key] = v of a dict d.
SetItem(d, key, v) ==
    Dict([k \in DOMAIN d.fields \cup {key} |-> IF k = key THEN v ELSE d.fields[k]])

\* any(d.values()) of a dict d.
AnyValue(d) == \E k \in DOMAIN d.fields : Truthy(d.fields[k])

\* All sequences over S of length at most n.
SeqsUpTo(S, n) == UNION {[1..k -> S] : k \in 0..n}

\* ------------------------------------------------------------------------
\* Bounds of the model.
\* ------------------------------------------------------------------------
\* Longest list (incidents, actions, logs) a backend reply carries.
MaxItems == 1

\* ------------------------------------------------------------------------
\* Requests (analyzer/models.py, AnalyzeRequest).
\* ------------------------------------------------------------------------
Sources == {"logs", "services", "comprehensive"}

\* Values of filters: absent, {}, and maps with or without the two ids.
FilterValues ==
    { None,
      EmptyDict,
      Dict([level |-> Str("error")]),
      Dict([logId |-> Str(""), incidentId |-> None]),
      Dict([logId |-> Str("L1")]),
      Dict([incidentId |-> Str("I1")]),
      Dict([logId |-> Str("L1"), incidentId |-> Str("I1")]) }

\* deep_analysis: Optional[bool], default False.
DeepValues == {Bool(TRUE), Bool(FALSE), None}

AnalyzeRequest ==
    [source : Sources, filters : FilterValues, context : {None},
     deep_analysis : DeepValues]

\* Labels of the metrics.
Statuses == {"success", "error", "no_data", "unavailable"}

GroqStatuses == {"success", "error"}

\* ------------------------------------------------------------------------
\* Replies of the data backend to one GET.
\* ------------------------------------------------------------------------
\* The body cannot be decoded: response.json() raises.
Undecodable == [kind |-> "undecodable"]

\* The GET raised httpx.RequestError (timeout, DNS, connection refused).
RequestError == [kind |-> "RequestError"]

Response(code, json) == [kind |-> "response", status_code |-> code, json |-> json]

\* The envelope {"data": payload}.
Envelope(payload) == Dict([data |-> payload])

\* Status codes the backend answers with besides 200.
ErrorCodes == {404, 500}

\* Replies to a GET whose 200 bodies are drawn from Bodies.
ErrorBody(code) ==
    Dict([error |-> IF code = 404 THEN Str("not found") ELSE Str("failed")])

Replies(Bodies) ==
    {RequestError}
      \cup {Response(c, ErrorBody(c)) : c \in ErrorCodes}
      \cup {Response(200, b) : b \in Bodies \cup {Undecodable}}

LogFull ==
    Dict([id |-> Str("L1"), level |-> Str("error"), service |-> Str("svc"),
          message |-> Str("disk full"), timestamp |-> Str("t1"),
          stackTrace |-> Str("trace")])

\* A log without a service name and with a null stack trace.
LogNoService ==
    Dict([id |-> Str("L1"), level |-> Str("error"),
          message |-> Str("disk full"), stackTrace |-> None])

LogBodies ==
    {EmptyDict, Envelope(None), Envelope(EmptyDict), Envelope(LogFull),
     Envelope(LogNoService)}

IncidentItems == {Dict([id |-> Str("I2"), title |-> Str("outage")]), EmptyDict}

IncidentsBodies ==
    {EmptyDict, Envelope(None), Envelope(EmptyDict)}
      \cup {Envelope(Dict([incidents |-> List(q)])) :
              q \in SeqsUpTo(IncidentItems, MaxItems)}

\* The incident the backend stores under id, with or without a service.
IncidentRecord(id, withService) ==
    IF withService
    THEN Dict([id |-> id, title |-> Str("outage"), serviceId |-> Str("S1")])
    ELSE Dict([id |-> id, title |-> Str("outage")])

IncidentBodies(id) ==
    {EmptyDict, Envelope(None), Envelope(EmptyDict),
     Envelope(IncidentRecord(id, TRUE)), Envelope(IncidentRecord(id, FALSE))}

ServiceRecord == Dict([id |-> Str("S1"), name |-> Str("svc"), status |-> Str("down")])

ServiceBodies == {EmptyDict, Envelope(None), Envelope(ServiceRecord)}

ActionItems == {Dict([commandRun |-> Str("restart"), result |-> Str("ok")])}

ActionsBodies ==
    {EmptyDict, Envelope(None), Envelope(EmptyDict)}
      \cup {Envelope(Dict([actions |-> List(q)])) :
              q \in SeqsUpTo(ActionItems, MaxItems)}

\* Related logs: one with a message, one whose message is null.
RelatedLogItems ==
    {Dict([level |-> Str("error"), message |-> Str("disk full")]),
     Dict([level |-> Str("error"), message |-> None])}

RelatedLogsBodies ==
    {EmptyDict, Envelope(None), Envelope(EmptyDict)}
      \cup {Envelope(Dict([logs |-> List(q)])) :
              q \in SeqsUpTo(RelatedLogItems, MaxItems)}

\* Bodies of the collection GET of standard mode: a flat list, the
\* envelope around a list, the paginated envelope keyed by the source
\* name, an envelope whose page lacks that key, no envelope, null data.
CollectionItems ==
    {Dict([id |-> Str("1"), level |-> Str("error"), message |-> Str("disk full")])}

Page(source, q) ==
    Dict([k \in {source, "total"} |-> IF k = source THEN List(q) ELSE Str("1")])

CollectionBodies(source) ==
    {EmptyDict, Envelope(None), Envelope(Dict([total |-> Str("0")]))}
      \cup {List(q) : q \in SeqsUpTo(CollectionItems, MaxItems)}
      \cup {Envelope(List(q)) : q \in SeqsUpTo(CollectionItems, MaxItems)}
      \cup {Envelope(Page(source, q)) : q \in SeqsUpTo(CollectionItems, MaxItems)}

\* Outcomes of client.chat.completions.create: the call raises, or it
\* returns a completion whose choices may be empty and whose content may
\* be null.
GroqOutcomes ==
    {[kind |-> "error"],
     [kind |-> "completion", choices |-> <<>>],
     [kind |-> "completion", choices |-> <<None>>],
     [kind |-> "completion", choices |-> <<Str("analysis text")>>]}

\* ------------------------------------------------------------------------
\* State.
\* ------------------------------------------------------------------------
VARIABLES
    client,                 \* analyzer.client.client: TRUE iff a Groq client exists
    req,                    \* req[r]: the AnalyzeRequest of request r
    pc,                     \* pc[r]: where request r stands
    comprehensive_data,     \* fetch_comprehensive_data: the bundle being filled
    incident_id,            \* fetch_comprehensive_data: the working incident id
    service_id,             \* fetch_comprehensive_data: the incident's serviceId
    agg_raised,             \* fetch_comprehensive_data ended by raising
    data,                   \* perform_analysis: data
    related_data,           \* perform_analysis: related_data
    prompt,                 \* perform_analysis: prompt
    result,                 \* the response returned or the HTTPException raised
    calls,                  \* the outbound calls request r has made, in order
    gathered,               \* what the backend has served to request r, by field
    backend_reply,          \* the reply to the standard-mode GET
    outcomes,               \* how each outbound call of request r ended, in order
    ai_analysis_requests,   \* Counter, by (source, status)
    ai_analysis_duration,   \* Histogram, observations by source
    groq_api_calls,         \* Counter, by status
    groq_api_duration,      \* Histogram, observations
    active_analyses,        \* Gauge
    data_fetch_duration     \* Histogram, observations by endpoint

reqvars ==
    <<req, pc, comprehensive_data, incident_id, service_id, agg_raised, data,
      related_data, prompt, result, calls, gathered, backend_reply, outcomes>>

metrics ==
    <<ai_analysis_requests, ai_analysis_duration, groq_api_calls,
      groq_api_duration, active_analyses, data_fetch_duration>>

vars == <<client, reqvars, metrics>>

Requests == DOMAIN req

\* ------------------------------------------------------------------------
\* analyzer/client.py
\* ------------------------------------------------------------------------
\* TRUE iff a client is returned: the key is set and Groq(...) did not raise.
initialize_groq_client(groq_api_key, groq_ok) ==
    IF groq_api_key = "" THEN FALSE
    ELSE IF groq_ok THEN TRUE ELSE FALSE

\* ------------------------------------------------------------------------
\* analyzer/metrics/__init__.py
\* ------------------------------------------------------------------------
Inc(counter, label) == [counter EXCEPT ![label] = @ + 1]

Observe(histogram, label) == [histogram EXCEPT ![label] = @ + 1]

\* ------------------------------------------------------------------------
\* analyzer/services/analyzer.py: the pure parts.
\* ------------------------------------------------------------------------
IsComprehensiveDeepOnly(request) == Truthy(request.deep_analysis)

\* request.deep_analysis or request.source == "comprehensive"
IsComprehensive(request) ==
    Truthy(request.deep_analysis) \/ request.source = "comprehensive"

\* request.filters.get(key) if request.filters else None
FilterId(request, key) ==
    IF Truthy(request.filters) THEN Get(request.filters, key, None) ELSE None

MissingIdsIsNone(log_id, inc_id) == log_id = None /\ inc_id = None

\* not log_id and not incident_id
MissingIds(log_id, inc_id) == ~Truthy(log_id) /\ ~Truthy(inc_id)

BundleIsEmptyNotDict(cd) == ~Truthy(cd)

\* not any(comprehensive_data.values())
BundleIsEmpty(cd) == ~AnyValue(cd)

NoDataIsNone(d) == d = None

\* not data
NoData(d) == ~Truthy(d)

ResponseSourceEcho(request) == request.source

\* request.source if not request.deep_analysis else "comprehensive"
ResponseSource(request) ==
    IF ~Truthy(request.deep_analysis) THEN request.source ELSE "comprehensive"

HTTPException(code, detail) ==
    [kind |-> "HTTPException", status_code |-> code, detail |-> detail]

Pending == [kind |-> "pending"]

AdvisoryText == Str("AI Analysis Unavailable: Groq API key not configured. Data retrieved successfully.")

ConfigureRecommendation == Str("Configure GROQ_API_KEY environment variable")

\* AnalysisResponse(...): pydantic accepts analysis only if it is a str and
\* related_data only if it is None or a dict.  (timestamp is left out.)
AnalysisResponseValid(body) ==
    /\ body.analysis.kind = "str"
    /\ body.related_data.kind \in {"None", "dict"}

DegradedResponseNoAdvice(request, d, rd) ==
    [source |-> ResponseSource(request), analysis |-> AdvisoryText,
     data_analyzed |-> d, related_data |-> rd, recommendations |-> None]

\* The response of lines 52-59.
DegradedResponse(request, d, rd) ==
    [source |-> ResponseSource(request), analysis |-> AdvisoryText,
     data_analyzed |-> d, related_data |-> rd,
     recommendations |-> List(<<ConfigureRecommendation>>)]

SuccessResponseWrapped(request, analysis, d, rd) ==
    [source |-> ResponseSource(request), analysis |-> analysis,
     data_analyzed |-> List(<<d>>), related_data |-> rd, recommendations |-> None]

\* The response of lines 68-74.
SuccessResponse(request, analysis, d, rd) ==
    [source |-> ResponseSource(request), analysis |-> analysis,
     data_analyzed |-> d, related_data |-> rd, recommendations |-> None]

\* ------------------------------------------------------------------------
\* analyzer/prompts.py
\* ------------------------------------------------------------------------
\* A prompt is the sequence of its rendered data lines; the fixed framework
\* text around them is left out.  A builder that raises yields PromptRaise.
MaxActionsShown == 5

MaxRelatedShown == 3

PromptRaise == [kind |-> "raise"]

Line(label, text) == [label |-> label, text |-> text]

Min(a, b) == IF a < b THEN a ELSE b

\* q[:n] of a list.
Take(q, n) == SubSeq(q, 1, Min(Len(q), n))

\* v[:n]: a str or a list can be sliced, anything else raises TypeError.
\* The strings of the model are shorter than every cap used.
Sliceable(v) == v.kind \in {"str", "list"}

\* f"{d.get(key, 'N/A')}"
Field(d, key) == Get(d, key, Str("N/A"))

\* log.get('stackTrace', 'N/A')[:500] if log.get('stackTrace') else 'None'
StackTraceRaises(log) ==
    Truthy(Get(log, "stackTrace", None)) /\ ~Sliceable(Get(log, "stackTrace", None))

StackTraceText(log) ==
    IF Truthy(Get(log, "stackTrace", None)) THEN Get(log, "stackTrace", None)
    ELSE Str("None")

LogSectionRaises(log) == ~IsDict(log) \/ StackTraceRaises(log)

LogSection(log) ==
    << Line("PRIMARY ERROR LOG", None),
       Line("Level", Field(log, "level")), Line("Service", Field(log, "service")),
       Line("Message", Field(log, "message")),
       Line("Timestamp", Field(log, "timestamp")),
       Line("Stack Trace", StackTraceText(log)) >>

IncidentSection(incident) ==
    << Line("RELATED INCIDENT", None),
       Line("ID", Field(incident, "id")), Line("Title", Field(incident, "title")),
       Line("Severity", Field(incident, "severity")),
       Line("Status", Field(incident, "status")),
       Line("Description", Field(incident, "description")),
       Line("Reported", Field(incident, "reportedAt")),
       Line("Resolved", Field(incident, "resolvedAt")) >>

ServiceSection(service) ==
    << Line("AFFECTED SERVICE", None),
       Line("Name", Field(service, "name")), Line("Status", Field(service, "status")),
       Line("URL", Field(service, "url")),
       Line("Health Check", Field(service, "healthCheckUrl")),
       Line("Last Updated", Field(service, "updatedAt")) >>

RECURSIVE Flatten(_)
Flatten(qq) == IF qq = <<>> THEN <<>> ELSE Head(qq) \o Flatten(Tail(qq))

ActionEntry(action) ==
    << Line("Action", None),
       Line("Command", Field(action, "commandRun")),
       Line("Result", Field(action, "result")),
       Line("Timestamp", Field(action, "timestamp")) >>

ActionsSectionRaises(actions) ==
    \/ ~IsList(actions)
    \/ \E i \in 1..Min(Len(actions.items), MaxActionsShown) : ~IsDict(actions.items[i])

ActionsSectionUntruncated(actions) ==
    << Line("ACTIONS ALREADY TAKEN", None) >>
      \o Flatten([i \in 1..Len(actions.items) |-> ActionEntry(actions.items[i])])

ActionsSection(actions) ==
    << Line("ACTIONS ALREADY TAKEN", None) >>
      \o Flatten([i \in 1..Len(Take(actions.items, MaxActionsShown)) |->
                    ActionEntry(actions.items[i])])

\* Log {i}: [{log.get('level')}] {log.get('message', 'N/A')[:100]}...
RelatedEntryRaises(log) == ~IsDict(log) \/ ~Sliceable(Field(log, "message"))

RelatedEntry(log) ==
    << Line("Log", Get(log, "level", None)), Line("message", Field(log, "message")) >>

RelatedSectionRaises(logs) ==
    \/ ~IsList(logs)
    \/ \E i \in 1..Min(Len(logs.items), MaxRelatedShown) : RelatedEntryRaises(logs.items[i])

RelatedSection(logs) ==
    << Line("RELATED ERROR LOGS", None) >>
      \o Flatten([i \in 1..Len(Take(logs.items, MaxRelatedShown)) |->
                    RelatedEntry(logs.items[i])])

ContextSection(context) ==
    IF Truthy(context) THEN << Line("ADDITIONAL CONTEXT", context) >> ELSE <<>>

build_comprehensive_analysis_prompt(cd, context) ==
    LET log      == Get(cd, "log", None)
        incident == Get(cd, "incident", None)
        service  == Get(cd, "service", None)
        actions  == Get(cd, "actions", None)
        logs     == Get(cd, "related_logs", None)
    IN  IF \/ Truthy(log) /\ LogSectionRaises(log)
           \/ Truthy(incident) /\ ~IsDict(incident)
           \/ Truthy(service) /\ ~IsDict(service)
           \/ Truthy(actions) /\ ActionsSectionRaises(actions)
           \/ Truthy(logs) /\ RelatedSectionRaises(logs)
        THEN PromptRaise
        ELSE [kind |-> "prompt", template |-> "comprehensive",
              lines |->
                  (IF Truthy(log) THEN LogSection(log) ELSE <<>>)
                    \o (IF Truthy(incident) THEN IncidentSection(incident) ELSE <<>>)
                    \o (IF Truthy(service) THEN ServiceSection(service) ELSE <<>>)
                    \o (IF Truthy(actions) THEN ActionsSection(actions) ELSE <<>>)
                    \o (IF Truthy(logs) THEN RelatedSection(logs) ELSE <<>>)
                    \o ContextSection(context)]

\* The data is embedded with str(): no value makes it raise.
build_analysis_prompt(source, d, context) ==
    [kind |-> "prompt", template |-> "standard",
     lines |-> ContextSection(context) \o << Line(source, d) >>]

\* ------------------------------------------------------------------------
\* analyzer/services/data_fetcher.py: fetch_from_node_backend
\* ------------------------------------------------------------------------
PaginatedSources == {"logs", "incidents", "actions"}

\* endpoint_map.get(source, f'/{source}'): every source maps to /source.
Endpoint(source) == source

\* Lines 147-152: HTTPException(status_code=e.response.status_code,
\* detail=f"Node backend error: {e.response.text}").
UpstreamError(code, text) ==
    [kind |-> "HTTPException", status_code |-> code,
     detail |-> "Node backend error", text |-> text]

\* Lines 138-146: the value returned for a decoded body.
UnwrapEnvelope(source, json) ==
    IF IsDict(json) /\ "data" \in DOMAIN json.fields
    THEN LET d == json.fields["data"]
         IN  IF IsDict(d) /\ source \in PaginatedSources
             THEN Get(d, source, EmptyList)
             ELSE d
    ELSE json

FetchOutcomeSwallow(source, reply) ==
    IF reply.kind = "RequestError"
    THEN [raised |-> FALSE, observed |-> 1, value |-> EmptyList]
    ELSE IF reply.status_code >= 400
    THEN [raised |-> TRUE, observed |-> 1,
          error |-> UpstreamError(reply.status_code, reply.json)]
    ELSE IF reply.json = Undecodable
    THEN [raised |-> TRUE, observed |-> 2,
          error |-> HTTPException(500, "Unexpected error")]
    ELSE [raised |-> FALSE, observed |-> 1,
          value |-> UnwrapEnvelope(source, reply.json)]

FetchOutcomeUnclassified(source, reply) ==
    IF reply.kind = "RequestError"
    THEN [raised |-> TRUE, observed |-> 1,
          error |-> HTTPException(500, "Unexpected error")]
    ELSE IF reply.status_code >= 400
    THEN [raised |-> TRUE, observed |-> 1,
          error |-> UpstreamError(reply.status_code, reply.json)]
    ELSE IF reply.json = Undecodable
    THEN [raised |-> TRUE, observed |-> 2,
          error |-> HTTPException(500, "Unexpected error")]
    ELSE [raised |-> FALSE, observed |-> 1,
          value |-> UnwrapEnvelope(source, reply.json)]

FetchOutcomeBadGateway(source, reply) ==
    IF reply.kind = "RequestError"
    THEN [raised |-> TRUE, observed |-> 1,
          error |-> HTTPException(503, "Failed to connect to Node backend")]
    ELSE IF reply.status_code >= 400
    THEN [raised |-> TRUE, observed |-> 1,
          error |-> UpstreamError(502, reply.json)]
    ELSE IF reply.json = Undecodable
    THEN [raised |-> TRUE, observed |-> 2,
          error |-> HTTPException(500, "Unexpected error")]
    ELSE [raised |-> FALSE, observed |-> 1,
          value |-> UnwrapEnvelope(source, reply.json)]

\* The outcome of fetch_from_node_backend for one reply: the value
\* returned, or the HTTPException raised, and the number of latency
\* observations recorded on the way.
FetchOutcome(source, reply) ==
    IF reply.kind = "RequestError"
    THEN [raised |-> TRUE, observed |-> 1,
          error |-> HTTPException(503, "Failed to connect to Node backend")]
    ELSE IF reply.status_code >= 400
    THEN [raised |-> TRUE, observed |-> 1,
          error |-> UpstreamError(reply.status_code, reply.json)]
    ELSE IF reply.json = Undecodable
    THEN [raised |-> TRUE, observed |-> 2,
          error |-> HTTPException(500, "Unexpected error")]
    ELSE [raised |-> FALSE, observed |-> 1,
          value |-> UnwrapEnvelope(source, reply.json)]

\* ------------------------------------------------------------------------
\* analyzer/services/data_fetcher.py: fetch_comprehensive_data
\* ------------------------------------------------------------------------
NewBundle ==
    Dict([log |-> None, incident |-> None, service |-> None,
          actions |-> EmptyList, related_logs |-> EmptyList])

\* The state of the aggregation after one reply was handled: the bundle,
\* the two working ids, whether an exception was raised, and where the
\* code goes next.
Cont(cd, iid, sid, goto) ==
    [cd |-> cd, incident_id |-> iid, service_id |-> sid, exc |-> FALSE, goto |-> goto]

Exc(cd, iid, sid) ==
    [cd |-> cd, incident_id |-> iid, service_id |-> sid, exc |-> TRUE, goto |-> "return"]

\* A reply whose status is 200.
Is200(reply) == reply.kind = "response" /\ reply.status_code = 200

\* Hop 1, lines 41-46: the reply to GET /logs/{error_log_id}.
LogStep(cd, iid, sid, reply) ==
    IF reply.kind = "RequestError" THEN Exc(cd, iid, sid)
    ELSE IF reply.status_code # 200 THEN Cont(cd, iid, sid, "incident_check")
    ELSE IF ~IsDict(reply.json) THEN Exc(cd, iid, sid)
    ELSE LET log == Get(reply.json, "data", None)
             cd1 == SetItem(cd, "log", log)
         IN  IF ~IsDict(log) THEN Exc(cd1, iid, sid)
             ELSE Cont(cd1, iid, sid, "incidents")

\* Hop 2, lines 48-57: the reply to GET /incidents?serviceName=..&limit=5.
IncidentsStep(cd, iid, sid, reply) ==
    IF reply.kind = "RequestError" THEN Exc(cd, iid, sid)
    ELSE IF reply.status_code # 200 THEN Cont(cd, iid, sid, "incident_check")
    ELSE IF ~IsDict(reply.json) THEN Exc(cd, iid, sid)
    ELSE LET incidents_data == Get(reply.json, "data", EmptyDict)
         IN  IF ~IsDict(incidents_data) THEN Exc(cd, iid, sid)
             ELSE LET incidents == Get(incidents_data, "incidents", EmptyList)
                  IN  IF ~Truthy(incidents)
                      THEN Cont(cd, iid, sid, "incident_check")
                      ELSE IF ~IsList(incidents) THEN Exc(cd, iid, sid)
                      ELSE IF ~IsDict(incidents.items[1]) THEN Exc(cd, iid, sid)
                      ELSE Cont(cd, Get(incidents.items[1], "id", None), sid,
                                "incident_check")

IncidentStepUnnested(cd, iid, sid, reply) ==
    IF reply.kind = "RequestError" THEN Exc(cd, iid, sid)
    ELSE IF reply.status_code # 200 THEN Cont(cd, iid, sid, "actions")
    ELSE IF ~IsDict(reply.json) THEN Exc(cd, iid, sid)
    ELSE LET incident == Get(reply.json, "data", None)
             cd1 == SetItem(cd, "incident", incident)
         IN  IF ~IsDict(incident) THEN Exc(cd1, iid, sid)
             ELSE LET sid1 == Get(incident, "serviceId", None)
                  IN  Cont(cd1, iid, sid1,
                           IF Truthy(sid1) THEN "service" ELSE "actions")

\* Hop 3, lines 62-67: the reply to GET /incidents/{incident_id}.
IncidentStep(cd, iid, sid, reply) ==
    IF reply.kind = "RequestError" THEN Exc(cd, iid, sid)
    ELSE IF reply.status_code # 200 THEN Cont(cd, iid, sid, "return")
    ELSE IF ~IsDict(reply.json) THEN Exc(cd, iid, sid)
    ELSE LET incident == Get(reply.json, "data", None)
             cd1 == SetItem(cd, "incident", incident)
         IN  IF ~IsDict(incident) THEN Exc(cd1, iid, sid)
             ELSE LET sid1 == Get(incident, "serviceId", None)
                  IN  Cont(cd1, iid, sid1,
                           IF Truthy(sid1) THEN "service" ELSE "actions")

ServiceStepRetry(cd, iid, sid, reply) ==
    IF reply.kind = "RequestError" THEN Exc(cd, iid, sid)
    ELSE IF reply.status_code # 200 THEN Cont(cd, iid, sid, "service")
    ELSE IF ~IsDict(reply.json) THEN Exc(cd, iid, sid)
    ELSE Cont(SetItem(cd, "service", Get(reply.json, "data", None)), iid, sid,
              "actions")

\* Hop 4, lines 70-73: the reply to GET /services/{service_id}.
ServiceStep(cd, iid, sid, reply) ==
    IF reply.kind = "RequestError" THEN Exc(cd, iid, sid)
    ELSE IF reply.status_code # 200 THEN Cont(cd, iid, sid, "actions")
    ELSE IF ~IsDict(reply.json) THEN Exc(cd, iid, sid)
    ELSE Cont(SetItem(cd, "service", Get(reply.json, "data", None)), iid, sid,
              "actions")

\* After hop 5 comes hop 6 if a service id is known (line 84).
AfterActions(sid) == IF Truthy(sid) THEN "related_logs" ELSE "return"

\* Hop 5, lines 76-81: the reply to GET /actions/incident/{incident_id}.
ActionsStep(cd, iid, sid, reply) ==
    IF reply.kind = "RequestError" THEN Exc(cd, iid, sid)
    ELSE IF reply.status_code # 200 THEN Cont(cd, iid, sid, AfterActions(sid))
    ELSE IF ~IsDict(reply.json) THEN Exc(cd, iid, sid)
    ELSE LET actions_data == Get(reply.json, "data", EmptyDict)
         IN  IF ~IsDict(actions_data) THEN Exc(cd, iid, sid)
             ELSE Cont(SetItem(cd, "actions", Get(actions_data, "actions", EmptyList)),
                       iid, sid, AfterActions(sid))

\* Hop 6, lines 85-91: the reply to GET /logs?serviceId=..&level=error&limit=10.
RelatedLogsStep(cd, iid, sid, reply) ==
    IF reply.kind = "RequestError" THEN Exc(cd, iid, sid)
    ELSE IF reply.status_code # 200 THEN Cont(cd, iid, sid, "return")
    ELSE IF ~IsDict(reply.json) THEN Exc(cd, iid, sid)
    ELSE LET logs_data == Get(reply.json, "data", EmptyDict)
         IN  IF ~IsDict(logs_data) THEN Exc(cd, iid, sid)
             ELSE Cont(SetItem(cd, "related_logs", Get(logs_data, "logs", EmptyList)),
                       iid, sid, "return")

AggregatorExceptReraise(cd) == [raised |-> TRUE, value |-> cd]

\* Lines 95-97: except Exception: print, return comprehensive_data.
AggregatorExcept(cd) == [raised |-> FALSE, value |-> cd]

ResolveNoCheck(step) ==
    IF step.goto = "incident_check" THEN "incident" ELSE step.goto

\* Line 60, if incident_id: hop 3 or the return of line 93.
Resolve(step) ==
    IF step.goto = "incident_check"
    THEN IF Truthy(step.incident_id) THEN "incident" ELSE "return"
    ELSE step.goto

\* ------------------------------------------------------------------------
\* The outbound calls of a request, and what the backend served to it.
\* ------------------------------------------------------------------------
Call(path, param) == [target |-> "backend", path |-> path, param |-> param]

\* max_tokens=3000 of line 176.
MaxTokens == 3000

\* Lines 162-176: the arguments of client.chat.completions.create besides
\* the prompt; they do not depend on the source or the mode.
ChatParameters ==
    [model |-> "llama-3.1-70b-versatile",
     system |-> "You are an expert DevOps SRE and incident response specialist. Provide detailed, actionable analysis with specific commands and steps.",
     temperature |-> "0.3",
     max_tokens |-> MaxTokens]

GroqCall ==
    [target |-> "groq", path |-> "chat.completions.create", param |-> ChatParameters]

\* The GET issued when the aggregation goes to hop goto.
HopCall(goto, step) ==
    CASE goto = "incidents" -> Call("/incidents", Get(Get(step.cd, "log", None), "service", None))
      [] goto = "incident" -> Call("/incidents/{id}", step.incident_id)
      [] goto = "service" -> Call("/services/{id}", step.service_id)
      [] goto = "actions" -> Call("/actions/incident/{id}", step.incident_id)
      [] goto = "related_logs" -> Call("/logs", step.service_id)

\* How a GET ended for the caller: httpx.RequestError raised, a status
\* other than 200, or a 200 reply.
ReplyClass(reply) ==
    IF reply.kind = "RequestError" THEN "unreachable"
    ELSE IF reply.status_code # 200 THEN "status"
    ELSE "ok"

\* How the chat completion ended: create raised, reading
\* completion.choices[0].message.content raised, or the content was read.
GroqClass(o) ==
    IF o.kind = "error" THEN "groq_raised"
    ELSE IF o.choices = <<>> THEN "groq_unreadable"
    ELSE "groq_read"

\* What the backend has served to a request: the five fields of a bundle
\* and the incidents of the by-service query.
NothingServed == SetItem(NewBundle, "incidents", None)

\* The backend's record of the entity it served with a 200 reply.
ServedEntity(g, field, reply) ==
    IF Is200(reply) /\ IsDict(reply.json)
    THEN SetItem(g, field, Get(reply.json, "data", None))
    ELSE g

\* The backend's record of the page it served with a 200 reply.
ServedPage(g, field, key, reply) ==
    IF Is200(reply) /\ IsDict(reply.json) /\ IsDict(Get(reply.json, "data", EmptyDict))
    THEN SetItem(g, field, Get(Get(reply.json, "data", EmptyDict), key, EmptyList))
    ELSE g

\* ------------------------------------------------------------------------
\* Initial state: the module import created the client (or not) and the
\* requests have arrived.
\* ------------------------------------------------------------------------
\* The state in which the requests of arrived wait in slots: nothing
\* fetched, nothing recorded.
InitOver(slots, arrived) ==
    /\ \E key \in {"", "gsk"}, groq_ok \in BOOLEAN :
           client = initialize_groq_client(key, groq_ok)
    /\ req \in arrived
    /\ pc = [r \in slots |-> "received"]
    /\ comprehensive_data = [r \in slots |-> None]
    /\ incident_id = [r \in slots |-> None]
    /\ service_id = [r \in slots |-> None]
    /\ agg_raised = [r \in slots |-> FALSE]
    /\ data = [r \in slots |-> None]
    /\ related_data = [r \in slots |-> None]
    /\ prompt = [r \in slots |-> None]
    /\ result = [r \in slots |-> Pending]
    /\ calls = [r \in slots |-> <<>>]
    /\ gathered = [r \in slots |-> NothingServed]
    /\ backend_reply = [r \in slots |-> None]
    /\ outcomes = [r \in slots |-> <<>>]
    /\ ai_analysis_requests = [l \in Sources \X Statuses |-> 0]
    /\ ai_analysis_duration = [l \in Sources |-> 0]
    /\ groq_api_calls = [l \in GroqStatuses |-> 0]
    /\ groq_api_duration = 0
    /\ active_analyses = 0
    /\ data_fetch_duration = [l \in Sources |-> 0]

Slots == {1}

Init == InitOver(Slots, [Slots -> AnalyzeRequest])

\* ------------------------------------------------------------------------
\* analyzer/services/analyzer.py: perform_analysis and its handlers.
\* ------------------------------------------------------------------------
FinishNoFinally(r, res, reqs, dur, gauge) ==
    /\ result' = [result EXCEPT ![r] = res]
    /\ pc' = [pc EXCEPT ![r] = "done"]
    /\ ai_analysis_requests' = reqs
    /\ active_analyses' = IF res.kind = "HTTPException" THEN gauge ELSE gauge - 1
    /\ ai_analysis_duration' = Observe(dur, req[r].source)

\* The request leaves perform_analysis with res.  reqs is the request
\* counter and dur the duration histogram as the try block left them, gauge
\* the gauge before the finally clause (lines 82-84) runs.
Finish(r, res, reqs, dur, gauge) ==
    /\ result' = [result EXCEPT ![r] = res]
    /\ pc' = [pc EXCEPT ![r] = "done"]
    /\ ai_analysis_requests' = reqs
    /\ active_analyses' = gauge - 1
    /\ ai_analysis_duration' = Observe(dur, req[r].source)

\* An HTTPException leaves the try block: lines 76-78.
RaiseHTTP(r, exception, reqs, gauge) ==
    Finish(r, exception, Inc(reqs, <<req[r].source, "error">>),
           ai_analysis_duration, gauge)

RaiseOtherUncounted(r, reqs, dur, gauge) ==
    Finish(r, HTTPException(500, "Analysis failed"), reqs, dur, gauge)

\* Any other exception leaves the try block: lines 79-81.
RaiseOther(r, reqs, dur, gauge) ==
    Finish(r, HTTPException(500, "Analysis failed"),
           Inc(reqs, <<req[r].source, "error">>), dur, gauge)

RespondHangs(r, body, reqs, dur, gauge) ==
    /\ result' = result
    /\ pc' = [pc EXCEPT ![r] = "responding"]
    /\ ai_analysis_requests' = reqs
    /\ active_analyses' = gauge
    /\ ai_analysis_duration' = dur

\* The response is built and returned; a response pydantic rejects raises
\* a ValidationError inside the try block.
Respond(r, body, reqs, dur, gauge) ==
    IF AnalysisResponseValid(body)
    THEN Finish(r, [kind |-> "response", body |-> body], reqs, dur, gauge)
    ELSE RaiseOther(r, reqs, dur, gauge)

\* Lines 35-47 up to the first await: the gauge is incremented, the mode is
\* selected; comprehensive mode reads the ids (lines 95-103) and starts the
\* aggregation (lines 27-41, 60-62), standard mode issues its GET (line 133).
perform_analysis(r) ==
    /\ pc[r] = "received"
    /\ LET request == req[r]
           log_id == FilterId(request, "logId")
           inc_id == FilterId(request, "incidentId")
       IN  IF IsComprehensive(request)
           THEN IF MissingIds(log_id, inc_id)
                THEN /\ RaiseHTTP(r, HTTPException(400, "provide either 'logId' or 'incidentId'"),
                                  Inc(ai_analysis_requests, <<request.source, "error">>),
                                  active_analyses + 1)
                     /\ UNCHANGED <<comprehensive_data, incident_id, calls>>
                ELSE /\ comprehensive_data' = [comprehensive_data EXCEPT ![r] = NewBundle]
                     /\ incident_id' = [incident_id EXCEPT ![r] = inc_id]
                     /\ active_analyses' = active_analyses + 1
                     /\ IF Truthy(log_id)
                        THEN /\ calls' = [calls EXCEPT ![r] = Append(@, Call("/logs/{id}", log_id))]
                             /\ pc' = [pc EXCEPT ![r] = "log"]
                        ELSE IF Truthy(inc_id)
                        THEN /\ calls' = [calls EXCEPT ![r] = Append(@, Call("/incidents/{id}", inc_id))]
                             /\ pc' = [pc EXCEPT ![r] = "incident"]
                        ELSE /\ pc' = [pc EXCEPT ![r] = "aggregated"]
                             /\ UNCHANGED calls
                     /\ UNCHANGED <<result, ai_analysis_requests, ai_analysis_duration>>
           ELSE /\ calls' = [calls EXCEPT ![r] =
                                Append(@, Call(Endpoint(request.source), request.filters))]
                /\ pc' = [pc EXCEPT ![r] = "fetch"]
                /\ active_analyses' = active_analyses + 1
                /\ UNCHANGED <<comprehensive_data, incident_id, result,
                               ai_analysis_requests, ai_analysis_duration>>
    /\ UNCHANGED <<client, req, service_id, agg_raised, data, related_data, prompt,
                   gathered, backend_reply, outcomes, groq_api_calls,
                   groq_api_duration, data_fetch_duration>>

AggReplyShared(r, step, served, reply) ==
    LET goto == Resolve(step)
        out  == IF step.exc THEN AggregatorExcept(step.cd)
                ELSE [raised |-> FALSE, value |-> step.cd]
        shared(cd) == [q \in Requests |->
                          IF q = r \/ comprehensive_data[q] # None
                          THEN cd ELSE comprehensive_data[q]]
    IN  /\ incident_id' = [incident_id EXCEPT ![r] = step.incident_id]
        /\ service_id' = [service_id EXCEPT ![r] = step.service_id]
        /\ gathered' = [gathered EXCEPT ![r] = served]
        /\ outcomes' = [outcomes EXCEPT ![r] = Append(@, ReplyClass(reply))]
        /\ IF goto = "return"
           THEN /\ comprehensive_data' = shared(out.value)
                /\ agg_raised' = [agg_raised EXCEPT ![r] = out.raised]
                /\ pc' = [pc EXCEPT ![r] = "aggregated"]
                /\ UNCHANGED calls
           ELSE /\ comprehensive_data' = shared(step.cd)
                /\ pc' = [pc EXCEPT ![r] = goto]
                /\ calls' = [calls EXCEPT ![r] = Append(@, HopCall(goto, step))]
                /\ UNCHANGED agg_raised
        /\ UNCHANGED <<client, req, data, related_data, prompt, result,
                       backend_reply, metrics>>

\* One reply was handled by fetch_comprehensive_data: the aggregation
\* awaits the next GET, or it returns (lines 93, 95-97) to
\* _handle_comprehensive_analysis.
AggReply(r, step, served, reply) ==
    LET goto == Resolve(step)
        out  == IF step.exc THEN AggregatorExcept(step.cd)
                ELSE [raised |-> FALSE, value |-> step.cd]
    IN  /\ incident_id' = [incident_id EXCEPT ![r] = step.incident_id]
        /\ service_id' = [service_id EXCEPT ![r] = step.service_id]
        /\ gathered' = [gathered EXCEPT ![r] = served]
        /\ outcomes' = [outcomes EXCEPT ![r] = Append(@, ReplyClass(reply))]
        /\ IF goto = "return"
           THEN /\ comprehensive_data' = [comprehensive_data EXCEPT ![r] = out.value]
                /\ agg_raised' = [agg_raised EXCEPT ![r] = out.raised]
                /\ pc' = [pc EXCEPT ![r] = "aggregated"]
                /\ UNCHANGED calls
           ELSE /\ comprehensive_data' = [comprehensive_data EXCEPT ![r] = step.cd]
                /\ pc' = [pc EXCEPT ![r] = goto]
                /\ calls' = [calls EXCEPT ![r] = Append(@, HopCall(goto, step))]
                /\ UNCHANGED agg_raised
        /\ UNCHANGED <<client, req, data, related_data, prompt, result,
                       backend_reply, metrics>>

LogReply(r) ==
    /\ pc[r] = "log"
    /\ \E reply \in Replies(LogBodies) :
           AggReply(r, LogStep(comprehensive_data[r], incident_id[r], service_id[r], reply),
                    ServedEntity(gathered[r], "log", reply), reply)

IncidentsReply(r) ==
    /\ pc[r] = "incidents"
    /\ \E reply \in Replies(IncidentsBodies) :
           AggReply(r, IncidentsStep(comprehensive_data[r], incident_id[r], service_id[r], reply),
                    ServedPage(gathered[r], "incidents", "incidents", reply), reply)

IncidentReply(r) ==
    /\ pc[r] = "incident"
    /\ \E reply \in Replies(IncidentBodies(incident_id[r])) :
           AggReply(r, IncidentStep(comprehensive_data[r], incident_id[r], service_id[r], reply),
                    ServedEntity(gathered[r], "incident", reply), reply)

ServiceReply(r) ==
    /\ pc[r] = "service"
    /\ \E reply \in Replies(ServiceBodies) :
           AggReply(r, ServiceStep(comprehensive_data[r], incident_id[r], service_id[r], reply),
                    ServedEntity(gathered[r], "service", reply), reply)

ActionsReply(r) ==
    /\ pc[r] = "actions"
    /\ \E reply \in Replies(ActionsBodies) :
           AggReply(r, ActionsStep(comprehensive_data[r], incident_id[r], service_id[r], reply),
                    ServedPage(gathered[r], "actions", "actions", reply), reply)

RelatedLogsReply(r) ==
    /\ pc[r] = "related_logs"
    /\ \E reply \in Replies(RelatedLogsBodies) :
           AggReply(r, RelatedLogsStep(comprehensive_data[r], incident_id[r], service_id[r], reply),
                    ServedPage(gathered[r], "related_logs", "logs", reply), reply)

ComprehensiveReturnNoRelated(cd, p) ==
    [data |-> cd, related_data |-> None, prompt |-> p]

\* Lines 107, 119: related_data = comprehensive_data;
\* return comprehensive_data, related_data, prompt.
ComprehensiveReturn(cd, p) ==
    [data |-> cd, related_data |-> cd, prompt |-> p]

\* _handle_comprehensive_analysis after the aggregation (lines 106-119)
\* and the assignment of line 43.
handle_comprehensive_analysis(r) ==
    /\ pc[r] = "aggregated"
    /\ LET cd == comprehensive_data[r]
           p  == build_comprehensive_analysis_prompt(cd, req[r].context)
       IN  IF agg_raised[r]
           THEN /\ RaiseOther(r, ai_analysis_requests, ai_analysis_duration, active_analyses)
                /\ UNCHANGED <<data, related_data, prompt>>
           ELSE IF BundleIsEmpty(cd)
           THEN /\ RaiseHTTP(r, HTTPException(404, "No data found for the provided IDs"),
                             Inc(ai_analysis_requests, <<req[r].source, "no_data">>),
                             active_analyses)
                /\ UNCHANGED <<data, related_data, prompt>>
           ELSE IF p = PromptRaise
           THEN /\ RaiseOther(r, ai_analysis_requests, ai_analysis_duration, active_analyses)
                /\ UNCHANGED <<data, related_data, prompt>>
           ELSE /\ data' = [data EXCEPT ![r] = ComprehensiveReturn(cd, p).data]
                /\ related_data' = [related_data EXCEPT ![r] = ComprehensiveReturn(cd, p).related_data]
                /\ prompt' = [prompt EXCEPT ![r] = ComprehensiveReturn(cd, p).prompt]
                /\ pc' = [pc EXCEPT ![r] = "client_check"]
                /\ UNCHANGED <<result, ai_analysis_requests, ai_analysis_duration,
                               active_analyses>>
    /\ UNCHANGED <<client, req, comprehensive_data, incident_id, service_id,
                   agg_raised, calls, gathered, backend_reply, outcomes,
                   groq_api_calls, groq_api_duration, data_fetch_duration>>

\* _handle_standard_analysis (lines 129-140) from the reply to the GET of
\* fetch_from_node_backend on, and the assignment of line 47.
handle_standard_analysis(r) ==
    /\ pc[r] = "fetch"
    /\ \E reply \in Replies(CollectionBodies(req[r].source)) :
           LET out == FetchOutcome(req[r].source, reply)
           IN  /\ backend_reply' = [backend_reply EXCEPT ![r] = reply]
               /\ outcomes' = [outcomes EXCEPT ![r] = Append(@, ReplyClass(reply))]
               /\ data_fetch_duration' =
                      [data_fetch_duration EXCEPT ![req[r].source] = @ + out.observed]
               /\ IF out.raised
                  THEN /\ RaiseHTTP(r, out.error, ai_analysis_requests, active_analyses)
                       /\ UNCHANGED <<data, prompt>>
                  ELSE IF NoData(out.value)
                  THEN /\ RaiseHTTP(r, HTTPException(404, "No data available for analysis"),
                                    Inc(ai_analysis_requests, <<req[r].source, "no_data">>),
                                    active_analyses)
                       /\ UNCHANGED <<data, prompt>>
                  ELSE /\ data' = [data EXCEPT ![r] = out.value]
                       /\ prompt' = [prompt EXCEPT ![r] =
                                        build_analysis_prompt(req[r].source, out.value,
                                                              req[r].context)]
                       /\ pc' = [pc EXCEPT ![r] = "client_check"]
                       /\ UNCHANGED <<result, ai_analysis_requests, ai_analysis_duration,
                                      active_analyses>>
    /\ UNCHANGED <<client, req, comprehensive_data, incident_id, service_id,
                   agg_raised, related_data, calls, gathered, groq_api_calls,
                   groq_api_duration>>

ClientCheckSkipped(r) ==
    /\ pc[r] = "client_check"
    /\ calls' = [calls EXCEPT ![r] = Append(@, GroqCall)]
    /\ pc' = [pc EXCEPT ![r] = "groq"]
    /\ UNCHANGED <<result, ai_analysis_requests, ai_analysis_duration, active_analyses>>
    /\ UNCHANGED <<client, req, comprehensive_data, incident_id, service_id,
                   agg_raised, data, related_data, prompt, gathered, backend_reply,
                   outcomes, groq_api_calls, groq_api_duration, data_fetch_duration>>

\* Lines 50-59 and the first lines of _get_groq_analysis (157-162): without
\* a client the degraded response is returned, with one the chat
\* completion is called.
ClientCheck(r) ==
    /\ pc[r] = "client_check"
    /\ IF ~client
       THEN /\ Respond(r, DegradedResponse(req[r], data[r], related_data[r]),
                       Inc(ai_analysis_requests, <<req[r].source, "unavailable">>),
                       ai_analysis_duration, active_analyses)
            /\ UNCHANGED calls
       ELSE /\ calls' = [calls EXCEPT ![r] = Append(@, GroqCall)]
            /\ pc' = [pc EXCEPT ![r] = "groq"]
            /\ UNCHANGED <<result, ai_analysis_requests, ai_analysis_duration,
                           active_analyses>>
    /\ UNCHANGED <<client, req, comprehensive_data, incident_id, service_id,
                   agg_raised, data, related_data, prompt, gathered, backend_reply,
                   outcomes, groq_api_calls, groq_api_duration, data_fetch_duration>>

\* The chat completion ends (lines 162-185) and perform_analysis goes on
\* to its end (lines 62-84).
GroqReply(r) ==
    /\ pc[r] = "groq"
    /\ \E o \in GroqOutcomes :
         /\ outcomes' = [outcomes EXCEPT ![r] = Append(@, GroqClass(o))]
         /\ IF o.kind = "error"
             THEN /\ groq_api_calls' = Inc(groq_api_calls, "error")
                  /\ groq_api_duration' = groq_api_duration + 1
                  /\ RaiseOther(r, ai_analysis_requests, ai_analysis_duration, active_analyses)
             ELSE IF o.choices = <<>>
             THEN /\ groq_api_calls' = Inc(Inc(groq_api_calls, "success"), "error")
                  /\ groq_api_duration' = groq_api_duration + 2
                  /\ RaiseOther(r, ai_analysis_requests, ai_analysis_duration, active_analyses)
             ELSE /\ groq_api_calls' = Inc(groq_api_calls, "success")
                  /\ groq_api_duration' = groq_api_duration + 1
                  /\ Respond(r, SuccessResponse(req[r], o.choices[1], data[r], related_data[r]),
                             Inc(ai_analysis_requests, <<req[r].source, "success">>),
                             Observe(ai_analysis_duration, req[r].source),
                             active_analyses)
    /\ UNCHANGED <<client, req, comprehensive_data, incident_id, service_id,
                   agg_raised, data, related_data, prompt, calls, gathered,
                   backend_reply, data_fetch_duration>>

Next ==
    \/ \E r \in Requests : perform_analysis(r)
    \/ \E r \in Requests : LogReply(r)
    \/ \E r \in Requests : IncidentsReply(r)
    \/ \E r \in Requests : IncidentReply(r)
    \/ \E r \in Requests : ServiceReply(r)
    \/ \E r \in Requests : ActionsReply(r)
    \/ \E r \in Requests : RelatedLogsReply(r)
    \/ \E r \in Requests : handle_comprehensive_analysis(r)
    \/ \E r \in Requests : handle_standard_analysis(r)
    \/ \E r \in Requests : ClientCheck(r)
    \/ \E r \in Requests : GroqReply(r)

Spec == Init /\ [][Next]_vars

\* The event loop resumes a coroutine once the call it awaits has ended,
\* and every call ends: a GET returns or fails within the 30 s timeout of
\* httpx.AsyncClient(timeout=30.0), the chat completion returns or raises.
\* So a step that stays possible is taken.
SpecFair == Spec /\ WF_vars(Next)

\* ------------------------------------------------------------------------
\* Concurrent requests: the event loop runs two calls of perform_analysis,
\* switching between them at the awaits.  Slot 1 holds a deep analysis of
\* a log, slot 2 a standard analysis or a comprehensive one without ids.
\* ------------------------------------------------------------------------
ConcurrentSlots == {1, 2}

DeepLogRequest ==
    [source |-> "logs", filters |-> Dict([logId |-> Str("L1")]),
     context |-> None, deep_analysis |-> Bool(TRUE)]

ShortRequests ==
    {[source |-> "services", filters |-> None, context |-> None,
      deep_analysis |-> Bool(FALSE)],
     [source |-> "comprehensive", filters |-> None, context |-> None,
      deep_analysis |-> Bool(FALSE)]}

InitConcurrent ==
    InitOver(ConcurrentSlots,
             {a \in [ConcurrentSlots -> AnalyzeRequest] :
                  a[1] = DeepLogRequest /\ a[2] \in ShortRequests})

SpecConcurrent == InitConcurrent /\ [][Next]_vars

\* ------------------------------------------------------------------------
\* The prompt builder on its own: build_comprehensive_analysis_prompt is
\* applied to bundles with up to MaxActions actions and MaxRelated related
\* logs, numbered in input order.
\* ------------------------------------------------------------------------
MaxActions == 6

MaxRelated == 4

\* A JSON number.
Num(n) == [kind |-> "int", n |-> n]

\* The i-th action and the i-th related log of a bundle.
ActionAt(i) ==
    Dict([commandRun |-> Str("restart"), result |-> Str("ok"), timestamp |-> Num(i)])

RelatedAt(i) == Dict([level |-> Num(i), message |-> Str("disk full")])

PromptBundles ==
    {Dict([log |-> log, incident |-> None, service |-> None,
           actions |-> List([i \in 1..n |-> ActionAt(i)]),
           related_logs |-> List([i \in 1..m |-> RelatedAt(i)])]) :
        log \in {None, LogFull}, n \in 0..MaxActions, m \in 0..MaxRelated}

PromptRequest ==
    [source |-> "comprehensive", filters |-> Dict([incidentId |-> Str("I1")]),
     context |-> None, deep_analysis |-> Bool(FALSE)]

\* The bundle is at hand and the prompt is about to be built.
InitPrompt ==
    /\ \E key \in {"", "gsk"}, groq_ok \in BOOLEAN :
           client = initialize_groq_client(key, groq_ok)
    /\ req = [r \in Slots |-> PromptRequest]
    /\ pc = [r \in Slots |-> "render"]
    /\ comprehensive_data \in [Slots -> PromptBundles]
    /\ incident_id = [r \in Slots |-> Str("I1")]
    /\ service_id = [r \in Slots |-> None]
    /\ agg_raised = [r \in Slots |-> FALSE]
    /\ data = [r \in Slots |-> None]
    /\ related_data = [r \in Slots |-> None]
    /\ prompt = [r \in Slots |-> None]
    /\ result = [r \in Slots |-> Pending]
    /\ calls = [r \in Slots |-> <<>>]
    /\ gathered = [r \in Slots |-> NothingServed]
    /\ backend_reply = [r \in Slots |-> None]
    /\ outcomes = [r \in Slots |-> <<>>]
    /\ ai_analysis_requests = [l \in Sources \X Statuses |-> 0]
    /\ ai_analysis_duration = [l \in Sources |-> 0]
    /\ groq_api_calls = [l \in GroqStatuses |-> 0]
    /\ groq_api_duration = 0
    /\ active_analyses = 1
    /\ data_fetch_duration = [l \in Sources |-> 0]

\* Line 117 of analyzer.py: the prompt is built from the bundle.
RenderPrompt(r) ==
    /\ pc[r] = "render"
    /\ prompt' = [prompt EXCEPT ![r] =
                     build_comprehensive_analysis_prompt(comprehensive_data[r],
                                                         req[r].context)]
    /\ pc' = [pc EXCEPT ![r] = "rendered"]
    /\ UNCHANGED <<client, req, comprehensive_data, incident_id, service_id,
                   agg_raised, data, related_data, result, calls, gathered,
                   backend_reply, outcomes, metrics>>

NextPrompt == \E r \in Requests : RenderPrompt(r)

SpecPrompt == InitPrompt /\ [][NextPrompt]_vars

\* ------------------------------------------------------------------------
\* Two concurrent comprehensive requests, each for an incident of its own:
\* slot 1 asks for I1, slot 2 for I3.  The backend answers GET
\* /incidents/{id} with the incident of that id, so the incident of a
\* bundle tells whose call fetched it.
\* ------------------------------------------------------------------------
IncidentRequest(id) ==
    [source |-> "comprehensive", filters |-> Dict([incidentId |-> Str(id)]),
     context |-> None, deep_analysis |-> Bool(FALSE)]

InitIncidents ==
    InitOver(ConcurrentSlots,
             {[r \in ConcurrentSlots |->
                  IF r = 1 THEN IncidentRequest("I1") ELSE IncidentRequest("I3")]})

\* The steps of a comprehensive request that starts at hop 3.
NextIncidents ==
    \/ \E r \in Requests : perform_analysis(r)
    \/ \E r \in Requests : IncidentReply(r)
    \/ \E r \in Requests : ServiceReply(r)
    \/ \E r \in Requests : ActionsReply(r)
    \/ \E r \in Requests : RelatedLogsReply(r)
    \/ \E r \in Requests : handle_comprehensive_analysis(r)
    \/ \E r \in Requests : ClientCheck(r)
    \/ \E r \in Requests : GroqReply(r)

SpecIncidents == InitIncidents /\ [][NextIncidents]_vars

\* ------------------------------------------------------------------------
\* Properties.
\* ------------------------------------------------------------------------
Done(r) == pc[r] = "done"

Responded(r) == Done(r) /\ result[r].kind = "response"

Failed(r, code) ==
    Done(r) /\ result[r].kind = "HTTPException" /\ result[r].status_code = code

AICalled(r) == \E i \in 1..Len(calls[r]) : calls[r][i].target = "groq"

\* The number of GETs request r has sent to the data backend.
BackendCalls(r) ==
    Cardinality({i \in 1..Len(calls[r]) : calls[r][i].target = "backend"})

\* The request asks for comprehensive mode.
ComprehensiveRequest(r) ==
    req[r].deep_analysis = Bool(TRUE) \/ req[r].source = "comprehensive"

\* The filters supply id: the key is there and its value is a non-empty string.
Supplied(r, id) ==
    /\ req[r].filters.kind = "dict"
    /\ id \in DOMAIN req[r].filters.fields
    /\ req[r].filters.fields[id].kind = "str"
    /\ req[r].filters.fields[id].s # ""

\* fetch_comprehensive_data was called by request r and has returned.
AggregatorReturned(r) ==
    /\ ComprehensiveRequest(r)
    /\ comprehensive_data[r] # None
    /\ pc[r] \in {"aggregated", "client_check", "groq", "done"}

\* The bundle is entirely empty.
EntirelyEmpty(cd) ==
    /\ cd.fields.log = None /\ cd.fields.incident = None /\ cd.fields.service = None
    /\ cd.fields.actions = EmptyList /\ cd.fields.related_logs = EmptyList

\* fetch_from_node_backend was called by request r and has returned a value.
FetchReturned(r) ==
    /\ ~ComprehensiveRequest(r)
    /\ backend_reply[r].kind = "response"
    /\ backend_reply[r].status_code = 200
    /\ backend_reply[r].json # Undecodable

\* The value it returned.
FetchedValue(r) == UnwrapEnvelope(req[r].source, backend_reply[r].json)

EmptyValue(v) == v = None \/ v = EmptyList \/ v = EmptyDict

\* C1: a comprehensive request whose filters supply neither logId nor
\* incidentId fails with 400, and it makes no backend request and no AI call.
C1_BadRequestWithoutIds ==
    \A r \in Requests :
        (ComprehensiveRequest(r) /\ ~Supplied(r, "logId") /\ ~Supplied(r, "incidentId"))
            => /\ calls[r] = <<>>
               /\ pc[r] \in {"received", "done"}
               /\ Done(r) => Failed(r, 400)

C1_Witness ==
    \E r \in Requests :
        /\ req[r].deep_analysis = Bool(TRUE) /\ req[r].source = "logs"
        /\ req[r].filters = Dict([logId |-> Str(""), incidentId |-> None])
        /\ Failed(r, 400) /\ calls[r] = <<>>

\* C2: in comprehensive mode an entirely empty bundle ends the request with
\* 404; the AI is never called and no response is returned.
C2_EmptyBundleNotFound ==
    \A r \in Requests :
        (AggregatorReturned(r) /\ EntirelyEmpty(comprehensive_data[r]))
            => /\ pc[r] \in {"aggregated", "done"}
               /\ ~AICalled(r)
               /\ Done(r) => Failed(r, 404)

\* incidentId I1 is supplied and the backend has no incident I1.
C2_Witness ==
    \E r \in Requests :
        /\ req[r].source = "comprehensive" /\ req[r].deep_analysis = Bool(TRUE)
        /\ req[r].filters = Dict([incidentId |-> Str("I1")])
        /\ calls[r] = << Call("/incidents/{id}", Str("I1")) >>
        /\ EntirelyEmpty(comprehensive_data[r])
        /\ Failed(r, 404)

\* C3: in standard mode an empty or absent result of
\* fetch_from_node_backend ends the request with 404; the AI is never called.
C3_EmptyFetchNotFound ==
    \A r \in Requests :
        (FetchReturned(r) /\ EmptyValue(FetchedValue(r)))
            => /\ Failed(r, 404)
               /\ ~AICalled(r)

C3_Witness ==
    \E r \in Requests :
        /\ req[r].source = "logs"
        /\ FetchReturned(r)
        /\ backend_reply[r].json = Envelope(Page("logs", <<>>))
        /\ Failed(r, 404) /\ ~AICalled(r)

\* C4: fetch_comprehensive_data never raises; the bundle it returns holds,
\* field by field, exactly what the backend served before the error.
C4_AggregatorNeverRaises ==
    \A r \in Requests :
        AggregatorReturned(r)
            => /\ ~agg_raised[r]
               /\ \A k \in DOMAIN comprehensive_data[r].fields :
                      comprehensive_data[r].fields[k] = gathered[r].fields[k]

\* The service GET (hop 4) failed by an exception after the incident was
\* gathered: the aggregation ends there and returns the incident.
C4_Witness ==
    \E r \in Requests :
        /\ pc[r] = "aggregated"
        /\ calls[r][Len(calls[r])].path = "/services/{id}"
        /\ Truthy(comprehensive_data[r].fields.incident)
        /\ comprehensive_data[r].fields.service = None
        /\ ~agg_raised[r]

\* The degraded response: the advisory text and the one recommendation.
IsDegraded(r) ==
    /\ Responded(r)
    /\ result[r].body.analysis = AdvisoryText
    /\ result[r].body.recommendations = List(<<ConfigureRecommendation>>)

\* C5 as stated: without a client every request ends with the degraded
\* response, whatever the request and the backend's replies.
C5_AlwaysDegraded ==
    \A r \in Requests : (~client /\ Done(r)) => IsDegraded(r)

\* C5, amended: without a client the AI is never called, and every request
\* that ends with a response ends with the degraded response.
C5_DegradedWhenResponded ==
    \A r \in Requests :
        ~client => /\ ~AICalled(r)
                   /\ Responded(r) => IsDegraded(r)

C5_Witness ==
    \E r \in Requests : ~client /\ IsDegraded(r) /\ ~ComprehensiveRequest(r)

\* C6: with non-empty gathered data and no client the request ends with a
\* response carrying that data, without an AI call, counted once as
\* 'unavailable' and not as 'error'.
C6_DegradedCarriesData ==
    \A r \in Requests :
        (/\ ~client /\ Done(r)
         /\ \/ FetchReturned(r) /\ Truthy(FetchedValue(r))
            \/ AggregatorReturned(r) /\ AnyValue(comprehensive_data[r]))
            => /\ Responded(r)
               /\ result[r].body.data_analyzed =
                      (IF ComprehensiveRequest(r) THEN comprehensive_data[r]
                       ELSE FetchedValue(r))
               /\ ~AICalled(r)
               /\ ai_analysis_requests[<<req[r].source, "unavailable">>] = 1
               /\ ai_analysis_requests[<<req[r].source, "error">>] = 0

\* C7: the response of a standard-mode request carries in data_analyzed
\* exactly the value fetch_from_node_backend returned, with a client and
\* without; a non-empty value and no client give such a response.
C7_DataAnalyzedIsFetched ==
    \A r \in Requests :
        /\ (~ComprehensiveRequest(r) /\ Responded(r))
               => /\ FetchReturned(r)
                  /\ result[r].body.data_analyzed = FetchedValue(r)
        /\ (FetchReturned(r) /\ ~EmptyValue(FetchedValue(r)) /\ Done(r) /\ ~client)
               => Responded(r)

\* The backend returned {data: {logs: [item]}} to a logs request with a client.
C7_Witness ==
    \E r \in Requests :
        /\ client /\ Responded(r)
        /\ req[r].source = "logs" /\ req[r].filters = Dict([level |-> Str("error")])
        /\ req[r].deep_analysis = Bool(FALSE)
        /\ \E item \in CollectionItems :
               /\ backend_reply[r].json = Envelope(Page("logs", <<item>>))
               /\ result[r].body.data_analyzed = List(<<item>>)
        /\ result[r].body.source = "logs"
        /\ Truthy(result[r].body.analysis)

\* C8: the source of a response is "comprehensive" iff the request ran in
\* comprehensive mode, and is the request's source otherwise.
C8_ResponseSource ==
    \A r \in Requests :
        Responded(r)
            => /\ (result[r].body.source = "comprehensive") <=> ComprehensiveRequest(r)
               /\ ~ComprehensiveRequest(r) => result[r].body.source = req[r].source

C8_Witness ==
    \E r \in Requests :
        /\ Responded(r)
        /\ req[r].deep_analysis = Bool(TRUE) /\ req[r].source = "logs"
        /\ result[r].body.source = "comprehensive"

\* C9: related_data of a response is populated iff the request ran in
\* comprehensive mode, and then it is the bundle in data_analyzed.
C9_RelatedData ==
    \A r \in Requests :
        Responded(r)
            => /\ (result[r].body.related_data # None) <=> ComprehensiveRequest(r)
               /\ ComprehensiveRequest(r)
                      => /\ result[r].body.related_data = result[r].body.data_analyzed
                         /\ result[r].body.related_data = comprehensive_data[r]

C9_Witness ==
    \E r \in Requests :
        /\ Responded(r) /\ ComprehensiveRequest(r)
        /\ result[r].body.related_data = comprehensive_data[r]
        /\ Truthy(comprehensive_data[r].fields.incident)

\* C10: a logId whose log exists and whose incidents query yields no
\* incidents, without an incidentId, gives a bundle with only log populated.
C10_LogWithoutIncidents ==
    \A r \in Requests :
        (/\ AggregatorReturned(r)
         /\ Supplied(r, "logId") /\ ~Supplied(r, "incidentId")
         /\ Truthy(gathered[r].fields.log)
         /\ gathered[r].fields.incidents = EmptyList)
            => /\ ~agg_raised[r]
               /\ comprehensive_data[r].fields.log = gathered[r].fields.log
               /\ comprehensive_data[r].fields.incident = None
               /\ comprehensive_data[r].fields.service = None
               /\ comprehensive_data[r].fields.actions = EmptyList
               /\ comprehensive_data[r].fields.related_logs = EmptyList
               /\ BackendCalls(r) = 2

C10_Witness ==
    \E r \in Requests :
        /\ pc[r] = "aggregated"
        /\ req[r].filters = Dict([logId |-> Str("L1")])
        /\ comprehensive_data[r].fields.log = LogFull
        /\ gathered[r].fields.incidents = EmptyList
        /\ comprehensive_data[r].fields.incident = None

\* The standard-mode GET of request r has been answered.
StandardFetchEnded(r) == ~ComprehensiveRequest(r) /\ backend_reply[r] # None

\* C11: every failure of fetch_from_node_backend reaches the caller as an
\* error of its class: an upstream status error carries the upstream status
\* code and body text, a connection failure is a 503, a body that cannot be
\* decoded is a 500; after a failure no value is returned and analysed.
C11_FailuresClassified ==
    \A r \in Requests :
        StandardFetchEnded(r) =>
            LET reply == backend_reply[r]
            IN  /\ reply.kind = "RequestError" =>
                       Failed(r, 503) /\ data[r] = None /\ ~AICalled(r)
                /\ (reply.kind = "response" /\ reply.status_code >= 400) =>
                       /\ Failed(r, reply.status_code)
                       /\ "text" \in DOMAIN result[r]
                       /\ result[r].text = reply.json
                       /\ data[r] = None /\ ~AICalled(r)
                /\ (reply.kind = "response" /\ reply.status_code = 200
                      /\ reply.json = Undecodable) =>
                       Failed(r, 500) /\ data[r] = None /\ ~AICalled(r)

\* The backend answers the collection GET with status 500 and its body.
C11_Witness ==
    \E r \in Requests :
        /\ req[r].source = "logs" /\ req[r].deep_analysis = Bool(FALSE)
        /\ backend_reply[r] = Response(500, ErrorBody(500))
        /\ Failed(r, 500) /\ result[r].text = ErrorBody(500)

\* Request r has called the data backend, and every one of its calls
\* failed at connection level.
BackendUnreachable(r) ==
    /\ outcomes[r] # <<>>
    /\ \A i \in 1..Len(outcomes[r]) : outcomes[r][i] = "unreachable"

\* C12 as stated: with the data backend unreachable a request ends with
\* 503, in standard mode and in comprehensive mode alike.
C12_UnreachableIs503 ==
    \A r \in Requests :
        (Done(r) /\ BackendUnreachable(r)) => Failed(r, 503)

\* C12: with the data backend unreachable a standard-mode request ends with
\* 503; a comprehensive-mode request ends with 404, its aggregation having
\* stopped at the first call and returned the empty bundle.
C12_UnreachableByMode ==
    \A r \in Requests :
        (Done(r) /\ BackendUnreachable(r)) =>
            IF ComprehensiveRequest(r)
            THEN /\ Failed(r, 404)
                 /\ Len(calls[r]) = 1
                 /\ EntirelyEmpty(comprehensive_data[r])
            ELSE Failed(r, 503)

\* Both ids are supplied and the first GET cannot connect.
C12_Witness ==
    \E r \in Requests :
        /\ req[r].source = "comprehensive"
        /\ Supplied(r, "logId") /\ Supplied(r, "incidentId")
        /\ outcomes[r] = <<"unreachable">>
        /\ calls[r] = << Call("/logs/{id}", Str("L1")) >>
        /\ Failed(r, 404)

\* The backend answered the standard-mode GET of request r with an error
\* status.
UpstreamStatusError(r) ==
    /\ StandardFetchEnded(r)
    /\ backend_reply[r].kind = "response"
    /\ backend_reply[r].status_code >= 400

\* Request r ended with a 4xx-class error.
Failed4xx(r) ==
    /\ Done(r) /\ result[r].kind = "HTTPException"
    /\ result[r].status_code >= 400 /\ result[r].status_code < 500

\* The 400 of a comprehensive request without ids.
BadRequest(r) ==
    /\ Failed(r, 400) /\ ComprehensiveRequest(r)
    /\ ~Supplied(r, "logId") /\ ~Supplied(r, "incidentId")

\* The 404 of a request whose handler found no data.
NotFound(r) ==
    /\ Failed(r, 404)
    /\ \/ AggregatorReturned(r) /\ BundleIsEmpty(comprehensive_data[r])
       \/ FetchReturned(r) /\ NoData(FetchedValue(r))

\* C13 as stated: an upstream error status in standard mode ends the
\* request with a 5xx-class error, and a 4xx-class error is a BadRequest or
\* a NotFound.
C13_UpstreamIs5xx ==
    \A r \in Requests :
        /\ UpstreamStatusError(r) =>
               Done(r) /\ result[r].kind = "HTTPException"
                       /\ result[r].status_code >= 500
        /\ Failed4xx(r) => BadRequest(r) \/ NotFound(r)

\* C13: an upstream error status in standard mode ends the request with an
\* error of that same status, 5xx for an upstream 5xx and 4xx for an
\* upstream 4xx; a 4xx-class error is a BadRequest, a NotFound or the
\* status the backend answered with.
C13_UpstreamStatusKept ==
    \A r \in Requests :
        /\ UpstreamStatusError(r) => Failed(r, backend_reply[r].status_code)
        /\ Failed4xx(r) =>
               \/ BadRequest(r)
               \/ NotFound(r)
               \/ /\ UpstreamStatusError(r)
                  /\ result[r].status_code = backend_reply[r].status_code

\* The backend answers the collection GET with 404: the request ends with
\* 404 though data was neither fetched nor found empty.
C13_Witness ==
    \E r \in Requests :
        /\ req[r].source = "services" /\ req[r].deep_analysis = None
        /\ backend_reply[r] = Response(404, ErrorBody(404))
        /\ Failed(r, 404) /\ ~NotFound(r)

\* The AI call of request r failed: create raised, or reading the content
\* of its first choice raised.
AICallFailed(r) ==
    /\ outcomes[r] # <<>>
    /\ outcomes[r][Len(outcomes[r])] \in {"groq_raised", "groq_unreadable"}

\* C14: a request whose AI call failed ends with HTTPException(500), not
\* with a response, and is counted under 'error' and not under 'success'.
C14_AIFailureIs500 ==
    \A r \in Requests :
        AICallFailed(r) =>
            /\ Failed(r, 500)
            /\ ai_analysis_requests[<<req[r].source, "error">>] = 1
            /\ ai_analysis_requests[<<req[r].source, "success">>] = 0

\* create returned a completion without choices.
C14_Witness ==
    \E r \in Requests :
        /\ outcomes[r] # <<>>
        /\ outcomes[r][Len(outcomes[r])] = "groq_unreadable"
        /\ AICalled(r) /\ Failed(r, 500)
        /\ ai_analysis_requests[<<req[r].source, "error">>] = 1

\* The requests that have entered perform_analysis and not yet left it.
InFlight == {r \in Requests : pc[r] \notin {"received", "done"}}

\* C15: in every interleaving the gauge equals the number of requests in
\* flight, it is never negative, and it is back at zero once every request
\* has finished.
C15_GaugeCountsInFlight ==
    /\ active_analyses = Cardinality(InFlight)
    /\ active_analyses >= 0
    /\ (\A r \in Requests : Done(r)) => active_analyses = 0

\* Two requests are in flight, one awaiting the chat completion and one
\* awaiting the backend.
C15_Witness ==
    /\ active_analyses = 2
    /\ pc[1] = "groq" /\ pc[2] = "fetch"

\* The sum of the values of a counter or histogram over the labels of D.
RECURSIVE SumOver(_, _)
SumOver(f, D) ==
    IF D = {} THEN 0
    ELSE LET l == CHOOSE x \in D : TRUE
         IN  f[l] + SumOver(f, D \ {l})

\* The requests that have reached a terminal outcome.
Finished == {r \in Requests : Done(r)}

\* The outcome category of a finished request.
Category(r) ==
    IF result[r].kind = "response"
    THEN IF result[r].body.analysis = AdvisoryText THEN "unavailable" ELSE "success"
    ELSE IF NotFound(r) THEN "no_data" ELSE "error"

\* C16: a finished request has incremented ai_analysis_requests once, under
\* (its source, the category of its outcome), and the counter summed over
\* all labels equals the number of finished requests.
C16_CountedOnce ==
    /\ \A r \in Finished :
           ai_analysis_requests[<<req[r].source, Category(r)>>] = 1
    /\ SumOver(ai_analysis_requests, DOMAIN ai_analysis_requests)
           = Cardinality(Finished)

\* C17: a finished request has observed its duration once, under its
\* source, and the number of observations equals the number of finished
\* requests.
C17_ObservedOnce ==
    /\ \A r \in Finished : ai_analysis_duration[req[r].source] = 1
    /\ SumOver(ai_analysis_duration, DOMAIN ai_analysis_duration)
           = Cardinality(Finished)

\* _get_groq_analysis was called by request r and has ended.
AdapterEnded(r) ==
    /\ outcomes[r] # <<>>
    /\ outcomes[r][Len(outcomes[r])] \in {"groq_raised", "groq_unreadable", "groq_read"}

\* C18: an ended call of _get_groq_analysis has made one chat-completion
\* call, incremented groq_api_calls once, under 'success' if it returned
\* and 'error' if it raised, and observed groq_api_duration once.
C18_OneCallOneCount ==
    \A r \in Requests :
        AdapterEnded(r) =>
            LET status == IF outcomes[r][Len(outcomes[r])] = "groq_read"
                          THEN "success" ELSE "error"
            IN  /\ Cardinality({i \in 1..Len(calls[r]) : calls[r][i] = GroqCall}) = 1
                /\ groq_api_calls[status] = 1
                /\ SumOver(groq_api_calls, DOMAIN groq_api_calls) = 1
                /\ groq_api_duration = 1

\* The calls of request r to the collection endpoint of its source
\* (fetch_from_node_backend), and its calls made by the chain aggregator.
GatewayCalls(r) ==
    {i \in 1..Len(calls[r]) :
         calls[r][i].target = "backend" /\ calls[r][i].path \in Sources}

AggregatorCalls(r) ==
    {i \in 1..Len(calls[r]) :
         calls[r][i].target = "backend" /\ calls[r][i].path \notin Sources}

\* C19: a request with deep_analysis set or source "comprehensive" is
\* handled by the comprehensive handler: it never makes the collection
\* fetch, and with an id supplied it invokes the aggregator; every other
\* request is handled by the standard handler: its first call is the
\* collection fetch and it never invokes the aggregator.
C19_ModeSelection ==
    \A r \in Requests :
        IF req[r].deep_analysis = Bool(TRUE) \/ req[r].source = "comprehensive"
        THEN /\ GatewayCalls(r) = {}
             /\ backend_reply[r] = None
             /\ (pc[r] # "received" /\ (Supplied(r, "logId") \/ Supplied(r, "incidentId")))
                    => comprehensive_data[r] # None /\ 1 \in AggregatorCalls(r)
        ELSE /\ AggregatorCalls(r) = {}
             /\ comprehensive_data[r] = None
             /\ pc[r] # "received"
                    => calls[r][1] = Call(Endpoint(req[r].source), req[r].filters)

\* Source "comprehensive" without the deep_analysis flag: the aggregator
\* has run its hops and the request has finished.
C19_Witness ==
    \E r \in Requests :
        /\ req[r].source = "comprehensive" /\ req[r].deep_analysis = Bool(FALSE)
        /\ Done(r)
        /\ Cardinality(AggregatorCalls(r)) >= 2 /\ GatewayCalls(r) = {}

\* C20: when both ids are supplied, every GET of an incident (hop 3) and of
\* an incident's actions (hop 5) is for the supplied incidentId.
C20_SuppliedIdWins ==
    \A r \in Requests :
        (Supplied(r, "logId") /\ Supplied(r, "incidentId")) =>
            \A i \in 1..Len(calls[r]) :
                calls[r][i].path \in {"/incidents/{id}", "/actions/incident/{id}"}
                    => calls[r][i].param = req[r].filters.fields.incidentId

\* Request r has sent the GET of the hop with this path; the GET failed
\* (no connection, or a status other than 200).
HopAttempted(r, path) ==
    \E i \in 1..Len(calls[r]) : calls[r][i].path = path

HopFailed(r, path) ==
    \E i \in 1..Len(outcomes[r]) :
        calls[r][i].path = path /\ outcomes[r][i] # "ok"

\* C21: a failed hop does not stop the aggregation: after a failed service
\* fetch the actions and the related logs are still fetched, and after a
\* failed log fetch with a supplied incidentId the incident is still fetched.
C21_HopFailureIsolated ==
    \A r \in Requests :
        AggregatorReturned(r) =>
            /\ HopFailed(r, "/services/{id}") =>
                   HopAttempted(r, "/actions/incident/{id}") /\ HopAttempted(r, "/logs")
            /\ (HopFailed(r, "/logs/{id}") /\ Supplied(r, "incidentId")) =>
                   HopAttempted(r, "/incidents/{id}")

\* The log fetched for request r has no service name.
LogWithoutService(r) ==
    /\ IsDict(gathered[r].fields.log)
    /\ ~Truthy(Get(gathered[r].fields.log, "service", None))

\* C22: the incidents-by-service query is sent only with a known service
\* name; for a log without a service name and no supplied incidentId,
\* hops 3 to 6 are not performed.
C22_QueryNeedsServiceName ==
    \A r \in Requests :
        /\ \A i \in 1..Len(calls[r]) :
               calls[r][i].path = "/incidents" => Truthy(calls[r][i].param)
        /\ (LogWithoutService(r) /\ ~Supplied(r, "incidentId")) =>
               \A path \in {"/incidents/{id}", "/services/{id}",
                            "/actions/incident/{id}", "/logs"} :
                   ~HopAttempted(r, path)

\* C23: the bundle-empty test of the orchestrator is true exactly for the
\* bundle whose log, incident and service are absent and whose actions and
\* related_logs are empty sequences, and only such a bundle ends with the
\* 404 of the comprehensive handler.
C23_EmptyIffAllAbsent ==
    \A r \in Requests :
        AggregatorReturned(r) =>
            /\ BundleIsEmpty(comprehensive_data[r]) <=> EntirelyEmpty(comprehensive_data[r])
            /\ Failed(r, 404) => EntirelyEmpty(comprehensive_data[r])

\* Envelope normalization with a second unwrapping only when the data
\* object has the source-name key, and the value as-is in every other case.
UnwrappedOrAsIs(source, json) ==
    IF IsDict(json) /\ "data" \in DOMAIN json.fields
    THEN LET d == json.fields["data"]
         IN  IF IsDict(d) /\ source \in {"logs", "incidents", "actions"}
                          /\ source \in DOMAIN d.fields
             THEN d.fields[source]
             ELSE d
    ELSE json

\* C24: the value fetch_from_node_backend returns for a decoded body is
\* the data value of an envelope, unwrapped once more to the inner sequence
\* when it is an object keyed by a paginated source name, and the value
\* as-is in every other case, a data object without that key included.
C24_EnvelopeNormalized ==
    \A r \in Requests :
        FetchReturned(r) =>
            FetchedValue(r) = UnwrappedOrAsIs(req[r].source, backend_reply[r].json)

\* C25: a call of fetch_from_node_backend that has ended has recorded one
\* observation of data_fetch_duration, under the requested source.
C25_OneLatencyObservation ==
    \A r \in Requests :
        StandardFetchEnded(r) =>
            /\ data_fetch_duration[req[r].source] = 1
            /\ SumOver(data_fetch_duration, DOMAIN data_fetch_duration) = 1

\* The positions of the chat-completion calls among the calls of request r.
AICalls(r) == {i \in 1..Len(calls[r]) : calls[r][i].target = "groq"}

\* The data gathering of request r has ended with a non-empty result.
DataGathered(r) ==
    /\ prompt[r] # None
    /\ IF ComprehensiveRequest(r)
       THEN AggregatorReturned(r) /\ data[r] = comprehensive_data[r]
                                  /\ ~BundleIsEmpty(data[r])
       ELSE FetchReturned(r) /\ data[r] = FetchedValue(r) /\ ~NoData(data[r])

\* The standard-mode fetch of request r failed in the gateway.
GatewayFailure(r) == Done(r) /\ StandardFetchEnded(r) /\ ~FetchReturned(r)

\* C26: the AI is called at most once per request, after every backend
\* call, and only with a configured client and gathered, non-empty data; a
\* request that ends with 400, with 404, with a gateway failure or with
\* the degraded response has not called it.
C26_AICallOnlyAfterData ==
    \A r \in Requests :
        /\ Cardinality(AICalls(r)) <= 1
        /\ AICalled(r) =>
               /\ client
               /\ DataGathered(r)
               /\ AICalls(r) = {Len(calls[r])}
        /\ (Failed(r, 400) \/ Failed(r, 404) \/ GatewayFailure(r) \/ IsDegraded(r))
               => ~AICalled(r)

\* A comprehensive request has gathered its bundle, called the AI as its
\* last call and returned the analysis.
C26_Witness ==
    \E r \in Requests :
        /\ req[r].source = "comprehensive" /\ Supplied(r, "incidentId")
        /\ Responded(r) /\ ~IsDegraded(r)
        /\ Len(calls[r]) >= 3 /\ AICalls(r) = {Len(calls[r])}

\* The GETs of the aggregation in the order of the code.
HopOrder ==
    << "/logs/{id}", "/incidents", "/incidents/{id}", "/services/{id}",
       "/actions/incident/{id}", "/logs" >>

HopIndex(path) == CHOOSE k \in 1..Len(HopOrder) : HopOrder[k] = path

\* C27: a comprehensive request sends its GETs in the order of the hops,
\* each hop at most once and so at most six in all; a standard request
\* sends exactly one GET; no call is sent a second time.
C27_NothingRetried ==
    \A r \in Requests :
        LET n == BackendCalls(r)
        IN  /\ \A i \in 1..n : calls[r][i].target = "backend"
            /\ IF ComprehensiveRequest(r)
               THEN /\ n <= Len(HopOrder)
                    /\ \A i \in 1..n :
                           \E k \in 1..Len(HopOrder) : HopOrder[k] = calls[r][i].path
                    /\ \A i, j \in 1..n :
                           i < j => HopIndex(calls[r][i].path) < HopIndex(calls[r][j].path)
               ELSE n = IF pc[r] = "received" THEN 0 ELSE 1

\* All six hops were performed, some of them failing, and the request has
\* finished.
C27_Witness ==
    \E r \in Requests :
        /\ Done(r) /\ BackendCalls(r) = 6
        /\ \E i \in 1..Len(outcomes[r]) : outcomes[r][i] = "status"

\* The populated fields of the bundle are records and sequences of
\* records, whatever keys they have and whatever values are null.
RecordOrAbsent(v) == v = None \/ IsDict(v)

RecordsOnly(v) ==
    IsList(v) /\ \A i \in 1..Len(v.items) : IsDict(v.items[i])

BundleOfRecords(cd) ==
    /\ RecordOrAbsent(cd.fields.log) /\ RecordOrAbsent(cd.fields.incident)
    /\ RecordOrAbsent(cd.fields.service)
    /\ RecordsOnly(cd.fields.actions) /\ RecordsOnly(cd.fields.related_logs)

\* C28: for a bundle of records build_comprehensive_analysis_prompt
\* returns a prompt: it does not raise, whichever keys are missing or null.
C28_PromptNeverRaises ==
    \A r \in Requests :
        (AggregatorReturned(r) /\ BundleOfRecords(comprehensive_data[r])) =>
            build_comprehensive_analysis_prompt(comprehensive_data[r], req[r].context)
                # PromptRaise

\* The lines of a built prompt that show the number of an action and of a
\* related log, and the lines that head the two sections.
IsActionStamp(l) == l.label = "Timestamp" /\ l.text.kind = "int"

IsRelatedStamp(l) == l.label = "Log" /\ l.text.kind = "int"

IsActionsHeader(l) == l.label = "ACTIONS ALREADY TAKEN"

IsRelatedHeader(l) == l.label = "RELATED ERROR LOGS"

\* C29: the prompt built from n actions and m related logs shows the first
\* min(n, 5) actions and the first min(m, 3) related logs, in input order,
\* and has the heading of a section only when its sequence is non-empty.
C29_EntriesTruncated ==
    \A r \in Requests :
        pc[r] = "rendered" =>
            LET n == Len(comprehensive_data[r].fields.actions.items)
                m == Len(comprehensive_data[r].fields.related_logs.items)
                lines == prompt[r].lines
            IN  /\ prompt[r] # PromptRaise
                /\ SelectSeq(lines, IsActionStamp)
                       = [i \in 1..(IF n < 5 THEN n ELSE 5) |-> Line("Timestamp", Num(i))]
                /\ SelectSeq(lines, IsRelatedStamp)
                       = [i \in 1..(IF m < 3 THEN m ELSE 3) |-> Line("Log", Num(i))]
                /\ Len(SelectSeq(lines, IsActionsHeader)) = IF n = 0 THEN 0 ELSE 1
                /\ Len(SelectSeq(lines, IsRelatedHeader)) = IF m = 0 THEN 0 ELSE 1

\* Six actions and four related logs were supplied; five and three are shown.
C29_Witness ==
    \E r \in Requests :
        /\ pc[r] = "rendered"
        /\ Len(comprehensive_data[r].fields.actions.items) = 6
        /\ Len(comprehensive_data[r].fields.related_logs.items) = 4
        /\ Len(SelectSeq(prompt[r].lines, IsActionStamp)) = 5
        /\ Len(SelectSeq(prompt[r].lines, IsRelatedStamp)) = 3

\* The arguments of the chat-completion call of request r.
AIParameters(r) == calls[r][CHOOSE i \in AICalls(r) : TRUE].param

\* C30: the AI call of a standard request has a strictly smaller
\* max_tokens than the AI call of a comprehensive request, with the same
\* system instruction and temperature.
C30_StandardBudgetSmaller ==
    \A s, c \in Requests :
        (~ComprehensiveRequest(s) /\ ComprehensiveRequest(c) /\ AICalled(s) /\ AICalled(c))
            => /\ AIParameters(s).max_tokens < AIParameters(c).max_tokens
               /\ AIParameters(s).system = AIParameters(c).system
               /\ AIParameters(s).temperature = AIParameters(c).temperature

\* Everything request r holds: its input, its position, its bundle and
\* working ids, its data, prompt and result, its calls and their replies.
Locals(r) ==
    <<req[r], pc[r], comprehensive_data[r], incident_id[r], service_id[r],
      agg_raised[r], data[r], related_data[r], prompt[r], result[r], calls[r],
      gathered[r], backend_reply[r], outcomes[r]>>

\* Every field of the bundle of request r is as fetch_comprehensive_data
\* initialised it or as the backend served it to a call of request r.
OwnBundle(r) ==
    comprehensive_data[r] # None =>
        \A k \in DOMAIN NewBundle.fields :
            comprehensive_data[r].fields[k]
                \in {NewBundle.fields[k], gathered[r].fields[k]}

\* The response of request r carries the bundle of request r, and the
\* incident in it is the one request r asked for.
OwnResponse(r) ==
    Responded(r) =>
        /\ result[r].body.data_analyzed = comprehensive_data[r]
        /\ result[r].body.related_data = comprehensive_data[r]
        /\ Truthy(result[r].body.data_analyzed.fields.incident) =>
               Get(result[r].body.data_analyzed.fields.incident, "id", None)
                   = req[r].filters.fields.incidentId

\* A step changes what one request holds and leaves every other request,
\* and the client, as they were.
OneRequestSteps ==
    /\ client' = client
    /\ \A r, q \in Requests :
           r # q => (Locals(r)' = Locals(r) \/ Locals(q)' = Locals(q))

\* C31: in every interleaving of two concurrent requests each request's
\* bundle and response come from its own input and the replies to its own
\* calls, and no step writes the state of two requests.
C31_RequestsIsolated ==
    /\ [](\A r \in Requests : OwnBundle(r) /\ OwnResponse(r))
    /\ [][OneRequestSteps]_vars

\* Both requests have gathered their incident while the other was in
\* flight and have answered, each with its own incident.
C31_Witness ==
    /\ Responded(1) /\ Responded(2)
    /\ Get(result[1].body.data_analyzed.fields.incident, "id", None) = Str("I1")
    /\ Get(result[2].body.data_analyzed.fields.incident, "id", None) = Str("I3")
    /\ Len(calls[1]) >= 3 /\ Len(calls[2]) >= 3

\* C32: a bundle has a service, actions or related logs only if it has an
\* incident, and a log only if a logId was supplied.
C32_ChainNeedsIncident ==
    \A r \in Requests :
        comprehensive_data[r] # None =>
            LET cd == comprehensive_data[r].fields
            IN  /\ (cd.service # None \/ cd.actions # EmptyList
                      \/ cd.related_logs # EmptyList) => cd.incident # None
                /\ cd.log # None => Supplied(r, "logId")

\* Only an incidentId was supplied: the returned bundle has the incident
\* and its actions and no log.
C32_Witness ==
    \E r \in Requests :
        /\ AggregatorReturned(r) /\ ~Supplied(r, "logId")
        /\ comprehensive_data[r].fields.incident # None
        /\ comprehensive_data[r].fields.actions # EmptyList
        /\ comprehensive_data[r].fields.log = None

\* Request r has its terminal outcome: a response or an error, not both.
HasOutcome(r) == result[r].kind \in {"response", "HTTPException"}

\* C33: every request eventually finishes; it has an outcome exactly when
\* it has finished, the outcome is a response or an error, and a finished
\* request keeps its outcome and is not in flight again.
C33_OneTerminalOutcome ==
    /\ \A r \in Slots : <>Done(r)
    /\ [](\A r \in Requests : Done(r) <=> HasOutcome(r))
    /\ [][\A r \in Requests : Done(r) => (Done(r)' /\ result'[r] = result[r])]_vars

\* A comprehensive request went through data gathering and the AI call
\* and has finished with a response, the gauge back at zero.
C33_Witness ==
    \E r \in Requests :
        /\ ComprehensiveRequest(r) /\ Done(r) /\ HasOutcome(r)
        /\ result[r].kind = "response" /\ AICalled(r)
        /\ active_analyses = 0

====
